---- MODULE Spec2Model ----
(***************************************************************************)
(* Model of read_write_heap.py: main() and MemoryEditor.find_and_replace.  *)
(* Text (map lines, file names, permissions) is a sequence of one-         *)
(* character strings; byte strings are sequences of byte values.           *)
(* The target process is assumed not to write its own heap during the run  *)
(* (exclusive access to the memory handle).  A write takes effect when it  *)
(* is issued (Python's buffer delays it to the next seek or close, with    *)
(* the same bytes at the same addresses), a bulk read returns the whole    *)
(* region or fails, and --unicode is left out (ascii mode).                *)
(***************************************************************************)
EXTENDS Integers, Sequences, FiniteSets, TLC

(* ------------------------------ bounds --------------------------------- *)
\* lowest address of the modelled address span
Base == 14
\* size of the first region in the two-region layouts
SmallLen == 2
\* longest search / replacement string
MaxPatLen == 2

(* ----------------------------- constants ------------------------------- *)
\* line 33: the safety ceiling, 100 * 1024 * 1024 in the source, scaled down
\* to the modelled address span (a region of MAX_HEAP_SIZE + 1 bytes exists)
MAX_HEAP_SIZE == 4
\* line 34
BACKUP_EXTENSION == <<".", "h", "e", "a", "p", "b", "a", "k">>

(* --------------------------- text primitives --------------------------- *)
HexDigits == <<"0", "1", "2", "3", "4", "5", "6", "7",
               "8", "9", "a", "b", "c", "d", "e", "f">>

Whitespace == {" ", "\n"}

\* Python: sub in s
Contains(sub, s) ==
  \E i \in 1..(Len(s) - Len(sub) + 1) : SubSeq(s, i, i + Len(sub) - 1) = sub

\* Python: s.split()  (runs of whitespace separate the fields)
RECURSIVE SplitWs(_)
SplitWs(s) ==
  IF s = <<>> THEN <<>>
  ELSE IF Head(s) \in Whitespace THEN SplitWs(Tail(s))
  ELSE LET stops == {i \in 1..Len(s) : s[i] \in Whitespace}
           n == IF stops = {} THEN Len(s) + 1
                ELSE CHOOSE i \in stops : \A j \in stops : i <= j
       IN <<SubSeq(s, 1, n - 1)>> \o SplitWs(SubSeq(s, n, Len(s)))

\* Python: s.split(c)
RECURSIVE SplitOn(_, _)
SplitOn(s, c) ==
  LET stops == {i \in 1..Len(s) : s[i] = c}
  IN IF stops = {} THEN <<s>>
     ELSE LET n == CHOOSE i \in stops : \A j \in stops : i <= j
          IN <<SubSeq(s, 1, n - 1)>> \o SplitOn(SubSeq(s, n + 1, Len(s)), c)

\* Python: int(x, 16)
RECURSIVE int16(_)
int16(x) ==
  IF x = <<>> THEN 0
  ELSE 16 * int16(SubSeq(x, 1, Len(x) - 1))
       + (CHOOSE d \in 0..15 : HexDigits[d + 1] = x[Len(x)])

\* Python: f"{n:x}"
RECURSIVE HexStr(_)
HexStr(n) ==
  IF n < 16 THEN <<HexDigits[n + 1]>>
  ELSE HexStr(n \div 16) \o <<HexDigits[(n % 16) + 1]>>

(* ------------------------- the target process -------------------------- *)
\* exclusive end of the modelled span: one byte more than the ceiling
Top == Base + MAX_HEAP_SIZE + 1
Mid == Base + SmallLen
\* one guard cell on either side of the span
Addr == (Base - 1)..Top

HeapPath == <<"[", "h", "e", "a", "p", "]">>
StackPath == <<"[", "s", "t", "a", "c", "k", "]">>
\* a mapped file whose name happens to contain both substrings
FilePath == <<"/", "r", "w", "[", "h", "e", "a", "p", "]">>
PermRW == <<"r", "w", "-", "p">>
PermRO == <<"r", "-", "-", "p">>

Mapping(s, e, perms, path) ==
  [start |-> s, end |-> e, perms |-> perms, path |-> path]

\* the address space layouts the target process may have (ascending,
\* non-overlapping mappings, as the kernel lists them)
Layouts ==
  { <<Mapping(Base, Base + MAX_HEAP_SIZE, PermRW, HeapPath)>>,
    <<Mapping(Base, Mid, PermRW, HeapPath), Mapping(Mid, Top, PermRW, HeapPath)>>,
    <<Mapping(Base, Top, PermRW, HeapPath)>>,
    <<Mapping(Base, Mid, PermRO, FilePath), Mapping(Mid, Top, PermRW, HeapPath)>>,
    <<Mapping(Base, Mid, PermRO, HeapPath), Mapping(Mid, Top, PermRW, StackPath)>> }

\* the kernel's hexadecimal rendering of an address (fixed width, zero padded)
HexAddr(n) == <<HexDigits[((n \div 16) % 16) + 1], HexDigits[(n % 16) + 1]>>

\* one line of /proc/<pid>/maps: start-end perms offset dev inode pathname
MapsLine(m) ==
  HexAddr(m.start) \o <<"-">> \o HexAddr(m.end) \o <<" ">> \o m.perms
    \o <<" ", "0", "0", " ", "0", "0", ":", "0", "0", " ", "0", " ">>
    \o m.path \o <<"\n">>

\* /proc/<pid>/maps as the sequence of its lines
MapsFile(layout) == [k \in 1..Len(layout) |-> MapsLine(layout[k])]

(* ------------------------------- inputs -------------------------------- *)
Strs(alphabet) == UNION {[1..k -> alphabet] : k \in 0..MaxPatLen}
\* the two byte values are interchangeable: a search string starts with 97
SearchStrings == {s \in Strs({97, 98}) : s # <<>> => s[1] = 97}
ReplaceStrings == Strs({98})
BackupPrefixes == {<<>>, <<"b", "k">>}
Args ==
  [search_string : SearchStrings, replace_string : ReplaceStrings,
   all : BOOLEAN, dry_run : BOOLEAN, backup : BackupPrefixes]

InitialMemories ==
  {m \in [Addr -> {97, 98}] : m[Base - 1] = 97 /\ m[Top] = 97}

VARIABLES
  euid,         \* os.geteuid()
  proc_exists,  \* os.path.exists("/proc/<pid>")
  vm,           \* the mappings of the target process
  mem,          \* /proc/<pid>/mem
  files,        \* the backup files: name -> [data, open]
  args,         \* the parsed command line
  pc,           \* position in main / find_and_replace
  search_b, replace_b,
  heap_ranges,  \* self.heap_ranges
  idx,          \* position of the for loop in heap_ranges
  heap_data, offset,
  result,       \* ReplacementResult
  error, exit_status,
  found_log,    \* addresses logged by "Found match at" (line 141)
  summary,      \* addresses listed by the final summary (lines 239-241)
  mem0,         \* history: the memory at the start of the run
  reads,        \* history: the bulk reads of /proc/<pid>/mem
  writes,       \* history: the write bursts to /proc/<pid>/mem
  io_failed     \* history: a system call on the memory or backup failed

vars == <<euid, proc_exists, vm, mem, files, args, pc, search_b, replace_b,
          heap_ranges, idx, heap_data, offset, result, error, exit_status,
          found_log, summary, mem0, reads, writes, io_failed>>

env == <<euid, proc_exists, vm, args, mem0>>

NoFiles == [n \in {} |-> <<>>]

Init ==
  /\ euid \in {0, 1000}
  /\ proc_exists \in BOOLEAN
  /\ vm \in (IF proc_exists THEN Layouts ELSE {<<>>})
  /\ mem \in (IF proc_exists THEN InitialMemories ELSE {[a \in Addr |-> 0]})
  /\ mem0 = mem
  /\ files = NoFiles
  /\ args \in Args
  /\ pc = "main"
  /\ search_b = <<>> /\ replace_b = <<>>
  /\ heap_ranges = <<>>
  /\ idx = 0
  /\ heap_data = <<>> /\ offset = 0
  /\ result = [count |-> 0, addresses |-> <<>>, backup_file |-> <<>>]
  /\ error = "none" /\ exit_status = -1
  /\ found_log = <<>> /\ summary = <<>>
  /\ reads = <<>> /\ writes = <<>>
  /\ io_failed = FALSE

(* --------------------- MemoryEditor: pure helpers ---------------------- *)
\* fault: the existence test of line 64 is missing
_validate_process_unchecked(exists) == "ok"

\* lines 62-72: the outcome of _validate_process (as root the maps file opens)
_validate_process(exists) ==
  IF ~exists THEN "ProcessLookupError" ELSE "ok"

\* line 80: the test a map line must pass
LineSelected(line) ==
  Contains(<<"[", "h", "e", "a", "p", "]">>, line) /\ Contains(<<"r", "w">>, line)

\* lines 81-82
ParseBounds(line) ==
  LET addr == SplitWs(line)[1]
      parts == SplitOn(addr, "-")
  IN <<int16(parts[1]), int16(parts[2])>>

\* lines 77-83: the ranges list built from the maps file
_locate_heap_regions(lines) ==
  LET sel == SelectSeq(lines, LineSelected)
  IN [k \in 1..Len(sel) |-> ParseBounds(sel[k])]

\* lines 167-171: str.encode("ascii") succeeds on code points below 128 ...
Encodable(str) == \A k \in 1..Len(str) : str[k] < 128

\* ... and yields one byte per character, of the character's code point
encode(str) == [k \in 1..Len(str) |-> str[k]]

\* lines 91-92
RegionTooLarge(start, end) == (end - start) > MAX_HEAP_SIZE

\* line 126
BackupName(prefix, start, end) ==
  prefix \o <<"_">> \o HexStr(start) \o <<"-">> \o HexStr(end) \o BACKUP_EXTENSION

\* mem.seek(start); mem.read(size)
RegionBytes(m, start, size) == [k \in 1..size |-> m[start + k - 1]]

\* fault: the copy starts one byte before the region (a wrong seek)
BackupData_misplaced(m, start, end) == RegionBytes(m, start - 1, end - start)

\* lines 99-100: the bytes _backup_region copies into the backup file
BackupData(m, start, end) == RegionBytes(m, start, end - start)

\* lines 131-132: the snapshot the scan works on
ReadHeapData(m, start, end) == RegionBytes(m, start, end - start)

\* line 136: heap_data.find(search_bytes, offset)
Find(data, sub, off) ==
  LET hits == {p \in off..(Len(data) - Len(sub)) :
                 SubSeq(data, p + 1, p + Len(sub)) = sub}
  IN IF hits = {} THEN -1 ELSE CHOOSE p \in hits : \A q \in hits : p <= q

\* fault: the absolute address is one byte too high
AbsPos_shifted(start, pos) == start + pos + 1

\* line 140
AbsPos(start, pos) == start + pos

\* fault: a shorter replacement is written without the zero padding
WriteBurst_unpadded(search, replace) == replace

\* lines 145-149: the bytes one match writes
WriteBurst(search, replace) ==
  replace \o [k \in 1..(Len(search) - Len(replace)) |-> 0]

\* mem_file.seek(addr); mem_file.write(bytes)
Poke(m, addr, bytes) ==
  [a \in DOMAIN m |->
     IF a >= addr /\ a < addr + Len(bytes) THEN bytes[a - addr + 1] ELSE m[a]]

\* fault: the write is not gated by dry_run
MemAfterMatch_always(m, abs_pos, search, replace, dry) ==
  Poke(m, abs_pos, WriteBurst(search, replace))

\* lines 143-149: the memory after one match
MemAfterMatch(m, abs_pos, search, replace, dry) ==
  IF ~dry THEN Poke(m, abs_pos, WriteBurst(search, replace)) ELSE m

\* fault: the scan resumes after the whole match
NextOffset_skipping(pos, search) == pos + Len(search)

\* line 155
NextOffset(pos, search) == pos + 1

(* ------------------------------ actions -------------------------------- *)
\* lines 247-249: the exception reaches main's handler
Raise(kind) ==
  /\ pc' = "exit"
  /\ error' = kind
  /\ exit_status' = 1

\* lines 213-215
CheckRoot ==
  /\ pc = "main"
  /\ IF euid # 0
     THEN Raise("NotRoot")
     ELSE pc' = "editor" /\ UNCHANGED <<error, exit_status>>
  /\ UNCHANGED <<env, mem, files, search_b, replace_b, heap_ranges, idx,
                 heap_data, offset, result, found_log, summary, reads, writes,
                 io_failed>>

\* line 218: MemoryEditor(pid)
NewEditor ==
  /\ pc = "editor"
  /\ LET v == _validate_process(proc_exists)
     IN IF v # "ok"
        THEN Raise(v)
        ELSE pc' = "strings" /\ UNCHANGED <<error, exit_status>>
  /\ UNCHANGED <<env, mem, files, search_b, replace_b, heap_ranges, idx,
                 heap_data, offset, result, found_log, summary, reads, writes,
                 io_failed>>

\* lines 219-221
ValidateStrings ==
  /\ pc = "strings"
  /\ IF args.search_string = <<>>
        \/ ~Encodable(args.search_string)
        \/ ~Encodable(args.replace_string)
     THEN Raise("ValueError") /\ UNCHANGED <<search_b, replace_b>>
     ELSE /\ search_b' = encode(args.search_string)
          /\ replace_b' = encode(args.replace_string)
          /\ pc' = "far"
          /\ UNCHANGED <<error, exit_status>>
  /\ UNCHANGED <<env, mem, files, heap_ranges, idx, heap_data, offset, result,
                 found_log, summary, reads, writes, io_failed>>

\* lines 112-116: the head of find_and_replace
EnterFindAndReplace ==
  /\ pc = "far"
  /\ IF Len(replace_b) > Len(search_b)
     THEN Raise("ValueError") /\ UNCHANGED <<heap_ranges, idx>>
     ELSE LET ranges == _locate_heap_regions(MapsFile(vm))
          IN IF ranges = <<>>
             THEN Raise("RuntimeError") /\ UNCHANGED <<heap_ranges, idx>>
             ELSE /\ heap_ranges' = ranges
                  /\ idx' = 1
                  /\ pc' = "region"
                  /\ UNCHANGED <<error, exit_status>>
  /\ UNCHANGED <<env, mem, files, search_b, replace_b, heap_data, offset,
                 result, found_log, summary, reads, writes, io_failed>>

\* lines 118-125 and 157: the for loop takes the next region, or returns
NextRegion ==
  /\ pc = "region"
  /\ pc' = IF idx > Len(heap_ranges) THEN "report"
           ELSE IF args.backup # <<>> THEN "backup" ELSE "read"
  /\ UNCHANGED <<env, mem, files, search_b, replace_b, heap_ranges, idx,
                 heap_data, offset, result, error, exit_status, found_log,
                 summary, reads, writes, io_failed>>

\* lines 126-127, 91-98: the size check, then both files are opened
BackupOpen ==
  /\ pc = "backup"
  /\ LET start == heap_ranges[idx][1]
         end == heap_ranges[idx][2]
         name == BackupName(args.backup, start, end)
     IN IF RegionTooLarge(start, end)
        THEN Raise("MemoryError") /\ UNCHANGED files
        ELSE /\ files' = [n \in DOMAIN files \cup {name} |->
                            IF n = name THEN [data |-> <<>>, open |-> TRUE]
                            ELSE files[n]]
             /\ pc' = "backup_copy"
             /\ UNCHANGED <<error, exit_status>>
  /\ UNCHANGED <<env, mem, search_b, replace_b, heap_ranges, idx, heap_data,
                 offset, result, found_log, summary, reads, writes, io_failed>>

\* lines 99-100, 128: copy the region, close both files
BackupCopy ==
  /\ pc = "backup_copy"
  /\ LET start == heap_ranges[idx][1]
         end == heap_ranges[idx][2]
         name == BackupName(args.backup, start, end)
         data == BackupData(mem, start, end)
     IN /\ files' = [files EXCEPT ![name] = [data |-> data, open |-> FALSE]]
        /\ reads' = Append(reads, [by |-> "backup", region |-> idx,
                                    start |-> start, end |-> end, data |-> data])
        /\ result' = [result EXCEPT !.backup_file = name]
  /\ pc' = "read"
  /\ UNCHANGED <<env, mem, search_b, replace_b, heap_ranges, idx, heap_data,
                 offset, error, exit_status, found_log, summary, writes,
                 io_failed>>

\* lines 130-134
ReadRegion ==
  /\ pc = "read"
  /\ LET start == heap_ranges[idx][1]
         end == heap_ranges[idx][2]
         data == ReadHeapData(mem, start, end)
     IN /\ heap_data' = data
        /\ reads' = Append(reads, [by |-> "scan", region |-> idx,
                                    start |-> start, end |-> end, data |-> data])
  /\ offset' = 0
  /\ pc' = "scan"
  /\ UNCHANGED <<env, mem, files, search_b, replace_b, heap_ranges, idx, result,
                 error, exit_status, found_log, summary, writes, io_failed>>

\* lines 135-155: one iteration of the while loop
ScanStep ==
  /\ pc = "scan"
  /\ LET start == heap_ranges[idx][1]
         pos == Find(heap_data, search_b, offset)
         abs_pos == AbsPos(start, pos)
     IN IF pos = -1
        THEN /\ idx' = idx + 1
             /\ pc' = "region"
             /\ heap_data' = <<>>
             /\ offset' = 0
             /\ UNCHANGED <<mem, result, found_log, writes>>
        ELSE /\ found_log' = Append(found_log, abs_pos)
             /\ mem' = MemAfterMatch(mem, abs_pos, search_b, replace_b, args.dry_run)
             /\ writes' = IF args.dry_run THEN writes
                          ELSE Append(writes,
                                 [region |-> idx, addr |-> abs_pos,
                                  data |-> WriteBurst(search_b, replace_b)])
             /\ result' = [result EXCEPT !.count = @ + 1,
                                         !.addresses = Append(@, abs_pos)]
             /\ IF ~args.all
                THEN /\ idx' = idx + 1
                     /\ pc' = "region"
                     /\ heap_data' = <<>>
                     /\ offset' = 0
                ELSE /\ offset' = NextOffset(pos, search_b)
                     /\ UNCHANGED <<idx, pc, heap_data>>
  /\ UNCHANGED <<env, files, search_b, replace_b, heap_ranges, error,
                 exit_status, summary, reads, io_failed>>

\* fault: the failure is swallowed and the loop goes on to the next region
IOFailure_swallowed ==
  /\ \/ pc \in {"backup", "backup_copy", "read"}
     \/ /\ pc = "scan"
        /\ ~args.dry_run
        /\ Find(heap_data, search_b, offset) # -1
  /\ (pc = "backup" => ~RegionTooLarge(heap_ranges[idx][1], heap_ranges[idx][2]))
  /\ io_failed' = TRUE
  /\ files' = [n \in DOMAIN files |-> [files[n] EXCEPT !.open = FALSE]]
  /\ idx' = idx + 1
  /\ pc' = "region"
  /\ heap_data' = <<>>
  /\ offset' = 0
  /\ UNCHANGED <<env, mem, search_b, replace_b, heap_ranges, result, error,
                 exit_status, found_log, summary, reads, writes>>

\* lines 98-100, 130-149 into 247-249: a system call on /proc/<pid>/mem or on
\* the backup file fails; the with blocks close the files and main reports
IOFailure ==
  /\ \/ pc \in {"backup", "backup_copy", "read"}
     \/ /\ pc = "scan"
        /\ ~args.dry_run
        /\ Find(heap_data, search_b, offset) # -1
  /\ (pc = "backup" => ~RegionTooLarge(heap_ranges[idx][1], heap_ranges[idx][2]))
  /\ io_failed' = TRUE
  /\ files' = [n \in DOMAIN files |-> [files[n] EXCEPT !.open = FALSE]]
  /\ found_log' =
       IF pc = "scan"
       THEN Append(found_log,
              AbsPos(heap_ranges[idx][1], Find(heap_data, search_b, offset)))
       ELSE found_log
  /\ Raise("OSError")
  /\ UNCHANGED <<env, mem, search_b, replace_b, heap_ranges, idx, heap_data,
                 offset, result, summary, reads, writes>>

\* lines 235-245
Report ==
  /\ pc = "report"
  /\ summary' = IF result.count = 0 THEN <<>> ELSE result.addresses
  /\ pc' = "exit"
  /\ exit_status' = 0
  /\ UNCHANGED <<env, mem, files, search_b, replace_b, heap_ranges, idx,
                 heap_data, offset, result, error, found_log, reads, writes,
                 io_failed>>

Next ==
  \/ CheckRoot
  \/ NewEditor
  \/ ValidateStrings
  \/ EnterFindAndReplace
  \/ NextRegion
  \/ BackupOpen
  \/ BackupCopy
  \/ ReadRegion
  \/ ScanStep
  \/ IOFailure
  \/ Report

Spec == Init /\ [][Next]_vars

(* ------------------------ vocabulary of the claims --------------------- *)
\* find_and_replace has returned its result to main
Returned == pc = "report" \/ (pc = "exit" /\ exit_status = 0)

\* the offsets at which sub occurs in data
Occurrences(data, sub) ==
  {p \in 0..(Len(data) - Len(sub)) : SubSeq(data, p + 1, p + Len(sub)) = sub}

RECURSIVE Ascending(_)
Ascending(S) ==
  IF S = {} THEN <<>>
  ELSE LET least == CHOOSE x \in S : \A y \in S : x <= y
       IN <<least>> \o Ascending(S \ {least})

RECURSIVE Flatten(_)
Flatten(ss) == IF ss = <<>> THEN <<>> ELSE Head(ss) \o Flatten(Tail(ss))

Shifted(seq, by) == [k \in 1..Len(seq) |-> seq[k] + by]

ScanReads == SelectSeq(reads, LAMBDA r : r.by = "scan")

\* the index of the located region that holds address a (0 when none does)
RegionOf(a) ==
  LET holds == {i \in 1..Len(heap_ranges) :
                  heap_ranges[i][1] <= a /\ a < heap_ranges[i][2]}
  IN IF holds = {} THEN 0 ELSE CHOOSE i \in holds : TRUE

\* the bytes a padded replacement leaves at a match
PaddedReplacement ==
  replace_b \o [k \in 1..(Len(search_b) - Len(replace_b)) |-> 0]

MemBytes(a, n) == [k \in 1..n |-> mem[a + k - 1]]

Reported == {result.addresses[k] : k \in 1..Len(result.addresses)}

\* the bounds of the mappings whose line has the pathname field [heap] and a
\* permission field that starts with rw, in map order
HeapRwBounds ==
  LET lines == MapsFile(vm)
      picked == {k \in 1..Len(vm) :
                   LET fields == SplitWs(lines[k])
                   IN /\ Len(fields) >= 6
                      /\ fields[6] = <<"[", "h", "e", "a", "p", "]">>
                      /\ SubSeq(fields[2], 1, 2) = <<"r", "w">>}
      order == Ascending(picked)
  IN [j \in 1..Len(order) |-> <<vm[order[j]].start, vm[order[j]].end>>]

(* -------------------------------- C1 ----------------------------------- *)
\* C1: with replace_all false, over any list of heap regions, the whole call
\* records at most one address, performs at most one write, and scans or
\* writes no region after the one that matched.
C1_StopsAfterFirstMatch ==
  (~args.all /\ heap_ranges = HeapRwBounds) =>
    /\ Len(result.addresses) <= 1
    /\ Len(writes) <= 1
    /\ \A k \in 1..Len(reads) :
         result.addresses # <<>> =>
           reads[k].region <= RegionOf(result.addresses[1])

(* -------------------------------- C2 ----------------------------------- *)
\* C2: once the loop reaches a region larger than MAX_HEAP_SIZE the call fails
\* with the region-too-large error, and that region is neither read nor
\* written, with or without a backup prefix.
C2_OversizeRegionRefused ==
  \A i \in 1..Len(heap_ranges) :
    (heap_ranges[i][2] - heap_ranges[i][1] > MAX_HEAP_SIZE) =>
      /\ \A k \in 1..Len(reads) : reads[k].region # i
      /\ \A k \in 1..Len(writes) : writes[k].region # i
      /\ idx = i => \/ pc \in {"region", "backup"}
                    \/ pc = "exit" /\ error = "MemoryError"
      /\ idx <= i

(* -------------------------------- C3 ----------------------------------- *)
\* what a call reports, as a function of the memory at the start of the call
\* and of the inputs other than dry_run
PerRegionAddresses ==
  [i \in 1..Len(heap_ranges) |->
     LET start == heap_ranges[i][1]
         bytes == [k \in 1..(heap_ranges[i][2] - start) |-> mem0[start + k - 1]]
         occ == Shifted(Ascending(Occurrences(bytes, search_b)), start)
     IN IF args.all \/ occ = <<>> THEN occ ELSE <<occ[1]>>]

\* C3: a dry run leaves the memory as it was, and a call returns the same
\* count and addresses whether dry_run is set or not: both are determined by
\* the initial memory, the regions, the search bytes and replace_all alone.
C3_DryRunSameResult ==
  Returned =>
    /\ args.dry_run => mem = mem0
    /\ result.addresses = Flatten(PerRegionAddresses)
    /\ result.count = Len(Flatten(PerRegionAddresses))

C3_Witness ==
  /\ Returned
  /\ args.dry_run
  /\ result.count >= 2
  /\ replace_b # <<>>

(* -------------------------------- C4 ----------------------------------- *)
\* C4: with a backup prefix, whenever a write to a region happens the backup
\* file of that region exists and is closed, and at the first write to the
\* region its bytes are the region's bytes just before that write.
C4_BackupPrecedesWrite ==
  [][(Len(writes') > Len(writes) /\ args.backup # <<>>) =>
       LET w == writes'[Len(writes')]
           start == heap_ranges[w.region][1]
           end == heap_ranges[w.region][2]
           name == args.backup \o <<"_">> \o HexStr(start) \o <<"-">>
                     \o HexStr(end) \o BACKUP_EXTENSION
           first == \A k \in 1..Len(writes) : writes[k].region # w.region
       IN /\ name \in DOMAIN files
          /\ ~files[name].open
          /\ first => files[name].data = MemBytes(start, end - start)]_vars

C4_Witness ==
  /\ args.backup # <<>>
  /\ Len(writes) >= 2
  /\ writes[1].region # writes[2].region

(* -------------------------------- C5 ----------------------------------- *)
\* C5: with replace_all the addresses reported are, region by region, start + p
\* in ascending order for every offset p at which the search bytes occur in the
\* region's bytes as read, overlapping occurrences included.
C5_EveryOccurrence ==
  (Returned /\ args.all) =>
    result.addresses =
      Flatten([k \in 1..Len(ScanReads) |->
                 Shifted(Ascending(Occurrences(ScanReads[k].data, search_b)),
                         ScanReads[k].start)])

C5_Witness ==
  /\ Returned
  /\ args.all
  /\ search_b = <<97, 97>>
  /\ Len(ScanReads) = 1
  /\ ScanReads[1].data = <<97, 97, 97, 97>>
  /\ Len(result.addresses) = 3

(* -------------------------------- C6 ----------------------------------- *)
\* no byte outside the len(search) bytes at a reported address is altered
OnlyMatchesAltered ==
  \A a \in Addr :
    mem[a] # mem0[a] => \E r \in Reported : r <= a /\ a < r + Len(search_b)

\* C6 as stated: with a shorter replacement and no dry run, after the call the
\* bytes at every reported address are replace followed by zero bytes, and no
\* other byte is altered.
C6_PaddedAtEveryMatch ==
  (Returned /\ ~args.dry_run /\ Len(replace_b) < Len(search_b)) =>
    /\ \A r \in Reported : MemBytes(r, Len(search_b)) = PaddedReplacement
    /\ OnlyMatchesAltered

\* C6 as amended: the same, for every reported address that no later reported
\* match overlaps.
C6_PaddedUnlessOverlapped ==
  (Returned /\ ~args.dry_run /\ Len(replace_b) < Len(search_b)) =>
    /\ \A r \in Reported :
         (\A q \in Reported : ~(r < q /\ q < r + Len(search_b))) =>
           MemBytes(r, Len(search_b)) = PaddedReplacement
    /\ OnlyMatchesAltered

C6_Witness ==
  /\ Returned
  /\ ~args.dry_run
  /\ Len(replace_b) < Len(search_b)
  /\ \E r \in Reported : (r + 1) \in Reported
  /\ \E r \in Reported : MemBytes(r, Len(search_b)) = PaddedReplacement

(* -------------------------------- C7 ----------------------------------- *)
\* C7: the located regions are the bounds of exactly the [heap] read-write
\* lines, all of them and in map order.
C7_ExactlyHeapLines ==
  /\ heap_ranges # <<>> => heap_ranges = HeapRwBounds
  /\ error = "RuntimeError" => HeapRwBounds = <<>>

(* -------------------------------- C8 ----------------------------------- *)
\* the memory that results from applying the first n recorded writes to mem0
RECURSIVE Replay(_)
Replay(n) ==
  IF n = 0 THEN mem0
  ELSE LET w == writes[n]
           before == Replay(n - 1)
       IN [a \in Addr |->
             IF w.addr <= a /\ a < w.addr + Len(w.data)
             THEN w.data[a - w.addr + 1] ELSE before[a]]

\* after a failed read or write: the run has ended in an error, nothing beyond
\* the region at hand was backed up, read or written, and what was written
\* stays written
AbortedInPlace ==
  /\ pc = "exit" /\ exit_status = 1 /\ error = "OSError"
  /\ \A k \in 1..Len(reads) : reads[k].region <= idx
  /\ \A k \in 1..Len(writes) : writes[k].region <= idx
  /\ Cardinality(DOMAIN files) <= idx
  /\ mem = Replay(Len(writes))

\* the replacements completed before the failure appear in the program's output
CompletedAreReported ==
  /\ writes # <<>>
  /\ \A k \in 1..Len(writes) :
       \/ \E j \in 1..Len(found_log) : found_log[j] = writes[k].addr
       \/ \E j \in 1..Len(summary) : summary[j] = writes[k].addr

\* C8 as stated: a failure aborts in place, and the completed matches are
\* reported only if a backup was taken.
C8_ReportedOnlyWithBackup ==
  io_failed =>
    /\ AbortedInPlace
    /\ CompletedAreReported => result.backup_file # <<>>

\* C8 as amended: a failure aborts in place; the completed matches appear in
\* the per-match log lines and never in a final summary, whether or not a
\* backup was taken.
C8_AbortsWithoutSummary ==
  io_failed =>
    /\ AbortedInPlace
    /\ summary = <<>>
    /\ \A k \in 1..Len(writes) :
         \E j \in 1..Len(found_log) : found_log[j] = writes[k].addr

C8_Witness ==
  /\ io_failed
  /\ pc = "exit"
  /\ writes # <<>>
  /\ mem # mem0
  /\ idx < Len(heap_ranges)

(* -------------------------------- C9 ----------------------------------- *)
\* C9: for a process that does not exist a run as root ends with the
\* process-not-found error and status 1; no backup file is created and no
\* write is attempted at any point of the run.
C9_ProcessNotFound ==
  ~proc_exists =>
    /\ DOMAIN files = {}
    /\ writes = <<>>
    /\ mem = mem0
    /\ pc \notin {"main", "editor"} =>
         /\ pc = "exit"
         /\ exit_status = 1
         /\ euid = 0 => error = "ProcessLookupError"

C9_Witness ==
  /\ ~proc_exists
  /\ pc = "exit"
  /\ exit_status = 1
  /\ error = "ProcessLookupError"

(* -------------------------------- C10 ---------------------------------- *)
\* C10: every write lies inside the region being scanned when it was made, and
\* no byte outside the located regions ever changes.
C10_WritesInsideRegion ==
  /\ \A k \in 1..Len(writes) :
       LET w == writes[k]
       IN /\ heap_ranges[w.region][1] <= w.addr
          /\ w.addr + Len(w.data) <= heap_ranges[w.region][2]
  /\ \A a \in Addr : RegionOf(a) = 0 => mem[a] = mem0[a]

C10_Witness ==
  /\ \E k \in 1..Len(writes) :
       /\ writes[k].addr + Len(writes[k].data) = heap_ranges[writes[k].region][2]
       /\ writes[k].data[Len(writes[k].data)] = 0
  /\ \E a \in Addr : RegionOf(a) = 0 /\ a > Base

====
